---- MODULE Spec2Model ----
(***************************************************************************)
(* Model of pykit.configer (src/pykit/configer/__init__.py): the settings  *)
(* sources (EnvSettingsSource, JsonSettingsSource, YamlSettingsSource) and *)
(* the composition of sources in NewSetting(...).Config.customise_sources. *)
(*                                                                         *)
(* Strings are sequences of one-character strings, so that lower(),        *)
(* startswith(), lstrip() and split() are computed character by character. *)
(* A nested dict is a function from key paths (sequences of keys) to       *)
(* nodes; a node is a dict, or a leaf holding a string or a number.        *)
(***************************************************************************)
EXTENDS Naturals, Sequences, FiniteSets, TLC

VARIABLES
    fs,        \* the paths that exist on disk
    docs,      \* the content of the files that are read: path -> document
    environ,   \* os.environ in its enumeration order: a sequence of <<key, val>>
    setting,   \* the arguments NewSetting closed over
    pc,        \* "idle", "composed", "called"
    sources,   \* the tuple the last customise_sources call returned
    prev,      \* the tuple the call before it returned
    produced   \* the outcomes of the sources called so far, in call order

vars == <<fs, docs, environ, setting, pc, sources, prev, produced>>

-----------------------------------------------------------------------------
(* Strings *)

UpperChars ==
    <<"A","B","C","D","E","F","G","H","I","J","K","L","M",
      "N","O","P","Q","R","S","T","U","V","W","X","Y","Z">>

LowerChars ==
    <<"a","b","c","d","e","f","g","h","i","j","k","l","m",
      "n","o","p","q","r","s","t","u","v","w","x","y","z">>

LowerChar(c) ==
    IF \E i \in DOMAIN UpperChars : UpperChars[i] = c
    THEN LowerChars[CHOOSE i \in DOMAIN UpperChars : UpperChars[i] = c]
    ELSE c

\* str.lower()
Lower(s) == [i \in 1..Len(s) |-> LowerChar(s[i])]

\* str.startswith(p)
StartsWith(s, p) == Len(p) <= Len(s) /\ SubSeq(s, 1, Len(p)) = p

Chars(s) == {s[i] : i \in DOMAIN s}

\* str.lstrip(chars): drops every leading character that is one of chars
RECURSIVE LStrip(_, _)
LStrip(s, chars) ==
    IF s # <<>> /\ Head(s) \in Chars(chars) THEN LStrip(Tail(s), chars) ELSE s

\* str.split(sep) for a one-character sep: always at least one piece
RECURSIVE Split(_, _)
Split(s, sep) ==
    IF \E i \in DOMAIN s : s[i] = sep
    THEN LET i == CHOOSE j \in DOMAIN s : s[j] = sep /\ \A k \in 1..(j-1) : s[k] # sep
         IN  <<SubSeq(s, 1, i - 1)>> \o Split(SubSeq(s, i + 1, Len(s)), sep)
    ELSE <<s>>

Dot == <<".">>

-----------------------------------------------------------------------------
(* Nested dicts *)

DictNode == [kind |-> "dict", val |-> <<>>]
StrNode(v) == [kind |-> "str", val |-> v]
IntNode(v) == [kind |-> "int", val |-> v]

\* dict()
EmptyDict == [p \in {} |-> DictNode]

\* d with node at path p
Put(d, p, node) == [q \in DOMAIN d \cup {p} |-> IF q = p THEN node ELSE d[q]]

-----------------------------------------------------------------------------
(* EnvSettingsSource *)

NilPath == <<>>

EnvSettingsSource(prefix) ==
    [kind |-> "EnvSettingsSource", path |-> NilPath, prefix |-> Lower(prefix) \o Dot]

\* One pass of the loop over keyparts: st is [vals, cur], cur the path of the
\* dict the walk stands in.
WalkPart(st, keyparts, i, val) ==
    LET part == keyparts[i]
        at == Append(st.cur, part)
    IN  IF at \notin DOMAIN st.vals
        THEN IF i < Len(keyparts)
             THEN [vals |-> Put(st.vals, at, DictNode), cur |-> at]
             ELSE [vals |-> Put(st.vals, at, StrNode(val)), cur |-> st.cur]
        ELSE st

RECURSIVE Walk(_, _, _, _)
Walk(st, keyparts, i, val) ==
    IF i > Len(keyparts) THEN st
    ELSE Walk(WalkPart(st, keyparts, i, val), keyparts, i + 1, val)

\* The body of the loop over os.environ.items() for one variable
EnvItem(self, vals, key, val) ==
    IF StartsWith(Lower(key), self.prefix)
    THEN LET envkey == LStrip(Lower(key), self.prefix)
             keyparts == Split(envkey, ".")
         IN  Walk([vals |-> vals, cur |-> <<>>], keyparts, 1, val).vals
    ELSE vals

RECURSIVE EnvLoop(_, _, _, _)
EnvLoop(self, vals, env, n) ==
    IF n > Len(env) THEN vals
    ELSE EnvLoop(self, EnvItem(self, vals, env[n][1], env[n][2]), env, n + 1)

\* EnvSettingsSource.__call__
EnvCall(self, env) == EnvLoop(self, EmptyDict, env, 1)

-----------------------------------------------------------------------------
(* File sources *)

\* What a parser makes of a file's text: a document is well formed or not,
\* and a well-formed one has a top-level value that is a mapping, an array,
\* a scalar or null. map is the mapping (EmptyDict for the other kinds).
Returned(top, map) == [raised |-> "none", top |-> top, map |-> map]
Raised(err) == [raised |-> err, top |-> "null", map |-> EmptyDict]

\* json.loads(text) / yaml.safe_load(text)
Loads(doc) ==
    IF doc.wellformed THEN Returned(doc.top, doc.map) ELSE Raised("ParseError")

JsonSettingsSource(path) ==
    [kind |-> "JsonSettingsSource", path |-> path, prefix |-> <<>>]

IniSettingsSource(path) ==
    [kind |-> "IniSettingsSource", path |-> path, prefix |-> <<>>]

YamlSettingsSource(path) ==
    [kind |-> "YamlSettingsSource", path |-> path, prefix |-> <<>>]

\* JsonSettingsSource.__call__
JsonCall(self, content) == Loads(content[self.path])

\* YamlSettingsSource.__call__
YamlCall(self, content) == Loads(content[self.path])

-----------------------------------------------------------------------------
(* NewSetting(datapath, name, mode, envprefix).Config.customise_sources *)

s_json == <<"j","s","o","n">>
s_ini  == <<"i","n","i">>
s_yaml == <<"y","a","m","l">>

\* datapath / file
JoinPath(datapath, file) == datapath \o <<"/">> \o file

\* CandidateFile with the mode left out of the file name
CandidateFile_NoMode(st, ext) ==
    JoinPath(st.datapath, st.name \o Dot \o ext)

\* f"{name}.{ext}", or f"{name}.{mode}.{ext}" when mode != ""
CandidateFile(st, ext) ==
    IF st.mode # <<>>
    THEN JoinPath(st.datapath, st.name \o Dot \o st.mode \o Dot \o ext)
    ELSE JoinPath(st.datapath, st.name \o Dot \o ext)

\* The three sources pydantic passes in
init_settings        == [kind |-> "init_settings", path |-> NilPath, prefix |-> <<>>]
env_settings         == [kind |-> "env_settings", path |-> NilPath, prefix |-> <<>>]
file_secret_settings == [kind |-> "file_secret_settings", path |-> NilPath, prefix |-> <<>>]

\* default_settings with the JSON source added whether or not its file exists
default_settings_Unchecked(st, disk) ==
    LET json_file == CandidateFile(st, s_json)
        ini_file  == CandidateFile(st, s_ini)
        yaml_file == CandidateFile(st, s_yaml)
    IN  {init_settings, env_settings, file_secret_settings}
        \cup {JsonSettingsSource(json_file)}
        \cup (IF ini_file \in disk THEN {IniSettingsSource(ini_file)} ELSE {})
        \cup (IF yaml_file \in disk THEN {YamlSettingsSource(yaml_file)} ELSE {})
        \cup {EnvSettingsSource(st.envprefix)}

\* default_settings with the env source added inside the YAML branch
default_settings_EnvInYamlBranch(st, disk) ==
    LET json_file == CandidateFile(st, s_json)
        ini_file  == CandidateFile(st, s_ini)
        yaml_file == CandidateFile(st, s_yaml)
    IN  {init_settings, env_settings, file_secret_settings}
        \cup (IF json_file \in disk THEN {JsonSettingsSource(json_file)} ELSE {})
        \cup (IF ini_file \in disk THEN {IniSettingsSource(ini_file)} ELSE {})
        \cup (IF yaml_file \in disk
              THEN {YamlSettingsSource(yaml_file), EnvSettingsSource(st.envprefix)}
              ELSE {})

\* The set default_settings as it stands at the return statement
default_settings(st, disk) ==
    LET json_file == CandidateFile(st, s_json)
        ini_file  == CandidateFile(st, s_ini)
        yaml_file == CandidateFile(st, s_yaml)
    IN  {init_settings, env_settings, file_secret_settings}
        \cup (IF json_file \in disk THEN {JsonSettingsSource(json_file)} ELSE {})
        \cup (IF ini_file \in disk THEN {IniSettingsSource(ini_file)} ELSE {})
        \cup (IF yaml_file \in disk THEN {YamlSettingsSource(yaml_file)} ELSE {})
        \cup {EnvSettingsSource(st.envprefix)}

\* tuple(a set): the set's iteration order follows the hashes of its members,
\* which are their addresses; any order of the members can come out.
RECURSIVE TupleOf(_)
TupleOf(S) ==
    IF S = {} THEN {<<>>}
    ELSE UNION {{<<x>> \o t : t \in TupleOf(S \ {x})} : x \in S}

\* What a call of customise_sources can return
customise_sources(st, disk) == TupleOf(default_settings(st, disk))

-----------------------------------------------------------------------------
(* Inputs *)

s_app   == <<"a","p","p">>
s_prod  == <<"p","r","o","d">>
s_data  == <<"d","a","t","a">>
s_PYKIT == <<"P","Y","K","I","T">>
s_PREFIX == <<"P","R","E","F","I","X">>

Modes == {<<>>, s_prod}
Exts == {s_json, s_ini, s_yaml}
EnvPrefixes == {s_PYKIT, s_PREFIX}

Settings ==
    [datapath : {s_data}, name : {s_app}, mode : Modes, envprefix : EnvPrefixes]

\* The files that may exist in the data directory
Files == {CandidateFile(st, ext) : st \in Settings, ext \in Exts}

NoDocs == [p \in {} |-> 0]

-----------------------------------------------------------------------------
(* Composition of the sources while files come and go *)

Init ==
    /\ fs = {}
    /\ docs = NoDocs
    /\ environ = <<>>
    /\ setting \in Settings
    /\ pc = "idle"
    /\ sources = <<>>
    /\ prev = <<>>
    /\ produced = <<>>

\* NewSetting(datapath, name, mode, envprefix): a new closure
NewSetting ==
    /\ pc = "idle"
    /\ setting' \in Settings
    /\ UNCHANGED <<fs, docs, environ, pc, sources, prev, produced>>

CreateFile ==
    /\ \E f \in Files \ fs : fs' = fs \cup {f}
    /\ UNCHANGED <<docs, environ, setting, pc, sources, prev, produced>>

\* Files are deleted between settings constructions; while a tuple is held
\* (the constructor runs synchronously) the disk only gains files.
DeleteFile ==
    /\ pc = "idle"
    /\ \E f \in fs : fs' = fs \ {f}
    /\ UNCHANGED <<docs, environ, setting, pc, sources, prev, produced>>

\* A settings object is built: customise_sources is called
Compose ==
    /\ pc = "idle"
    /\ sources' \in customise_sources(setting, fs)
    /\ pc' = "composed"
    /\ UNCHANGED <<fs, docs, environ, setting, prev, produced>>

\* The tuple is consumed and dropped
Discard ==
    /\ pc = "composed"
    /\ sources' = <<>>
    /\ pc' = "idle"
    /\ UNCHANGED <<fs, docs, environ, setting, prev, produced>>

Next == NewSetting \/ CreateFile \/ DeleteFile \/ Compose \/ Discard

Spec == Init /\ [][Next]_vars

-----------------------------------------------------------------------------
(* Calling the sources of a composed tuple, one after the other *)

NextSource == sources[Len(produced) + 1]

AfterCall(outcome) ==
    /\ produced' = Append(produced, outcome)
    /\ pc' = IF Len(produced) + 1 = Len(sources) THEN "called" ELSE "composed"
    /\ UNCHANGED <<fs, docs, environ, setting, sources, prev>>

CallEnv ==
    /\ pc = "composed"
    /\ Len(produced) < Len(sources)
    /\ NextSource.kind = "EnvSettingsSource"
    /\ AfterCall(Returned("mapping", EnvCall(NextSource, environ)))

CallJson ==
    /\ pc = "composed"
    /\ Len(produced) < Len(sources)
    /\ NextSource.kind = "JsonSettingsSource"
    /\ AfterCall(JsonCall(NextSource, docs))

CallYaml ==
    /\ pc = "composed"
    /\ Len(produced) < Len(sources)
    /\ NextSource.kind = "YamlSettingsSource"
    /\ AfterCall(YamlCall(NextSource, docs))

\* The sources pydantic passes in are called too; they hold no values here
\* (no keyword arguments, no matching field, no secrets directory).
CallExternal ==
    /\ pc = "composed"
    /\ Len(produced) < Len(sources)
    /\ NextSource \in {init_settings, env_settings, file_secret_settings}
    /\ AfterCall(Returned("mapping", EmptyDict))

-----------------------------------------------------------------------------
(* EnvSettingsSource.__call__ over bounded environments *)

MaxDepth == 3
MaxVars == 2

s_A == <<"A">>
s_B == <<"B">>
s_PORT == <<"P","O","R","T">>
s_HOME == <<"H","O","M","E">>

Segs == {s_A, s_B, s_PORT}
Vals == {<<"1">>, <<"2">>}

SeqsUpTo(S, n) == UNION {[1..k -> S] : k \in 0..n}

KeyPaths == SeqsUpTo(Segs, MaxDepth) \ {<<>>}

RECURSIVE JoinDots(_)
JoinDots(parts) ==
    IF Len(parts) = 1 THEN parts[1]
    ELSE parts[1] \o Dot \o JoinDots(Tail(parts))

EnvVarPrefixes == {s_PREFIX, s_PYKIT}

\* Variable names: PREFIX.K1.....Kn, and names that match no prefix
EnvNames ==
    {p \o Dot \o JoinDots(path) : p \in EnvVarPrefixes, path \in KeyPaths}
    \cup {s_HOME, s_PREFIX \o s_A}

\* os.environ holds each name once
Environs ==
    {e \in SeqsUpTo(EnvNames \X Vals, MaxVars) :
        \A i, j \in DOMAIN e : i # j => e[i][1] # e[j][1]}

InitEnv ==
    /\ fs = {}
    /\ docs = NoDocs
    /\ environ \in Environs
    /\ setting \in [datapath : {s_data}, name : {s_app}, mode : {<<>>},
                    envprefix : EnvVarPrefixes]
    /\ pc = "composed"
    /\ sources = <<EnvSettingsSource(setting.envprefix)>>
    /\ prev = <<>>
    /\ produced = <<>>

NextEnv == CallEnv

SpecEnv == InitEnv /\ [][NextEnv]_vars

-----------------------------------------------------------------------------
(* JsonSettingsSource.__call__ and YamlSettingsSource.__call__ over documents *)

s_db   == <<"d","b">>
s_host == <<"h","o","s","t">>
s_port == <<"p","o","r","t">>
s_h1   == <<"h","1">>
s_h2   == <<"h","2">>
s_5432 == <<"5","4","3","2">>

DocPaths == {<<s_db>>, <<s_db, s_host>>, <<s_db, s_port>>, <<s_host>>}
DocNodes == {DictNode, StrNode(s_h1), IntNode(s_5432)}

\* The nested dicts over DocPaths: whatever holds a key is a dict
Mappings ==
    {d \in UNION {[P -> DocNodes] : P \in SUBSET DocPaths} :
        \A q \in DOMAIN d :
            Len(q) > 1 => /\ SubSeq(q, 1, Len(q) - 1) \in DOMAIN d
                          /\ d[SubSeq(q, 1, Len(q) - 1)] = DictNode}

Documents ==
    {[wellformed |-> TRUE, top |-> "mapping", map |-> m] : m \in Mappings}
    \cup {[wellformed |-> TRUE, top |-> t, map |-> EmptyDict] :
             t \in {"array", "scalar", "null"}}
    \cup {[wellformed |-> FALSE, top |-> "null", map |-> EmptyDict]}

InitFile ==
    /\ setting \in [datapath : {s_data}, name : {s_app}, mode : Modes,
                    envprefix : {s_PYKIT}]
    /\ \E ext \in {s_json, s_yaml}, doc \in Documents :
          LET file == CandidateFile(setting, ext)
          IN  /\ fs = {file}
              /\ docs = (file :> doc)
              /\ sources = <<IF ext = s_json THEN JsonSettingsSource(file)
                                             ELSE YamlSettingsSource(file)>>
    /\ environ = <<>>
    /\ pc = "composed"
    /\ prev = <<>>
    /\ produced = <<>>

NextFile == CallJson \/ CallYaml

SpecFile == InitFile /\ [][NextFile]_vars

-----------------------------------------------------------------------------
(* End to end: data/app.yaml and PYKIT.DB.HOST=h2 *)

s_DB   == <<"D","B">>
s_HOST == <<"H","O","S","T">>

AppYaml ==
    [wellformed |-> TRUE, top |-> "mapping",
     map |-> (<<s_db>> :> DictNode) @@ (<<s_db, s_host>> :> StrNode(s_h1))
             @@ (<<s_db, s_port>> :> IntNode(s_5432))]

InitE2E ==
    /\ setting = [datapath |-> s_data, name |-> s_app, mode |-> <<>>,
                  envprefix |-> s_PYKIT]
    /\ fs = {CandidateFile(setting, s_yaml)}
    /\ docs = (CandidateFile(setting, s_yaml) :> AppYaml)
    /\ environ = << <<s_PYKIT \o Dot \o s_DB \o Dot \o s_HOST, s_h2>> >>
    /\ pc = "idle"
    /\ sources = <<>>
    /\ prev = <<>>
    /\ produced = <<>>

NextE2E == Compose \/ CallEnv \/ CallYaml \/ CallExternal

SpecE2E == InitE2E /\ [][NextE2E]_vars

-----------------------------------------------------------------------------
(* Two customise_sources calls of one closure on an unchanged disk *)

InitRepeat ==
    /\ fs \in SUBSET {CandidateFile(st, s_yaml) : st \in Settings}
    /\ docs = NoDocs
    /\ environ = <<>>
    /\ setting \in Settings
    /\ pc = "idle"
    /\ sources = <<>>
    /\ prev = <<>>
    /\ produced = <<>>

\* A second settings object of the same class is built
ComposeAgain ==
    /\ pc = "composed"
    /\ prev = <<>>
    /\ prev' = sources
    /\ sources' \in customise_sources(setting, fs)
    /\ UNCHANGED <<fs, docs, environ, setting, pc, produced>>

NextRepeat == Compose \/ ComposeAgain

SpecRepeat == InitRepeat /\ [][NextRepeat]_vars

-----------------------------------------------------------------------------
(* Properties of the composition *)

Kinds(t) == [i \in DOMAIN t |-> t[i].kind]

FileKind(ext) ==
    IF ext = s_json THEN "JsonSettingsSource"
    ELSE IF ext = s_ini THEN "IniSettingsSource" ELSE "YamlSettingsSource"

\* The candidate path as the specification words it: {name}.{ext} under
\* datapath for an empty mode, {name}.{mode}.{ext} otherwise
CandidatePath(st, ext) ==
    st.datapath \o <<"/">> \o
        JoinDots(IF st.mode = <<>> THEN <<st.name, ext>> ELSE <<st.name, st.mode, ext>>)

\* The other variant's path
OtherVariantPath(st, ext) ==
    CandidatePath([st EXCEPT !.mode = IF st.mode = <<>> THEN s_prod ELSE <<>>], ext)

HasSource(t, kind) == \E i \in DOMAIN t : t[i].kind = kind

\* The declared precedence, highest first; pydantic's own env_settings has no
\* place in it
Rank(kind) ==
    CASE kind = "init_settings" -> 1
      [] kind = "EnvSettingsSource" -> 2
      [] kind = "file_secret_settings" -> 3
      [] kind = "JsonSettingsSource" -> 4
      [] kind = "IniSettingsSource" -> 5
      [] kind = "YamlSettingsSource" -> 6
      [] OTHER -> 0

\* C1: the tuple customise_sources returns is in the declared precedence
\* order: init values, EnvSettingsSource, file secrets, then the JSON, INI
\* and YAML sources that are present.
C1_DeclaredOrder ==
    pc = "composed" =>
        \A i, j \in DOMAIN sources :
            (i < j /\ Rank(sources[i].kind) > 0 /\ Rank(sources[j].kind) > 0)
                => Rank(sources[i].kind) < Rank(sources[j].kind)

\* C2: a call of customise_sources returns the source of a format if and only
\* if that format's candidate path exists when the call is made, a missing
\* candidate leaving no source of that format at all; and whatever is created
\* or deleted after the call leaves the returned tuple as it is.
C2_PresentIffExists ==
    [][ /\ (pc = "idle" /\ pc' = "composed") =>
            \A ext \in Exts :
                /\ HasSource(sources', FileKind(ext)) <=> CandidatePath(setting, ext) \in fs
                /\ \A i \in DOMAIN sources' :
                       sources'[i].kind = FileKind(ext)
                           => sources'[i].path = CandidatePath(setting, ext)
        /\ (pc = "composed" /\ fs' # fs) => sources' = sources
      ]_vars

\* The JSON candidate was created after the call: the tuple has no source
\* for it, and holds the YAML source of the candidate that existed.
C2_Witness ==
    /\ pc = "composed"
    /\ CandidatePath(setting, s_json) \in fs
    /\ ~HasSource(sources, "JsonSettingsSource")
    /\ HasSource(sources, "YamlSettingsSource")
    /\ CandidatePath(setting, s_ini) \notin fs
    /\ ~HasSource(sources, "IniSettingsSource")

\* C7: every file source of a composition has the path of its format's
\* candidate for the closure's mode, {name}.{ext} for mode "" and
\* {name}.{mode}.{ext} otherwise, never the other variant's, and a format
\* has at most one source.
C7_OneVariant ==
    pc = "composed" =>
        \A ext \in Exts :
            /\ \A i \in DOMAIN sources :
                   sources[i].kind = FileKind(ext) =>
                       /\ sources[i].path = CandidatePath(setting, ext)
                       /\ sources[i].path # OtherVariantPath(setting, ext)
            /\ Cardinality({i \in DOMAIN sources : sources[i].kind = FileKind(ext)}) <= 1

\* Both variants of every format are on disk, the mode is "prod", and the
\* composition holds the three sources.
C7_Witness ==
    /\ pc = "composed"
    /\ setting.mode = s_prod
    /\ \A ext \in Exts :
          /\ CandidatePath(setting, ext) \in fs
          /\ OtherVariantPath(setting, ext) \in fs
          /\ HasSource(sources, FileKind(ext))

\* C9: every tuple customise_sources returns holds exactly one
\* EnvSettingsSource, the one built from envprefix.
C9_OneEnvSource ==
    pc = "composed" =>
        /\ Cardinality({i \in DOMAIN sources : sources[i].kind = "EnvSettingsSource"}) = 1
        /\ \A i \in DOMAIN sources :
               sources[i].kind = "EnvSettingsSource" =>
                   /\ sources[i].prefix = Lower(setting.envprefix) \o Dot
                   /\ sources[i].path = NilPath

\* A composition in mode "prod" with no candidate on disk
C9_Witness ==
    /\ pc = "composed"
    /\ setting.mode = s_prod
    /\ \A ext \in Exts : CandidatePath(setting, ext) \notin fs
    /\ Len(sources) = 4
    /\ HasSource(sources, "EnvSettingsSource")

\* C8: two customise_sources calls of one closure on the same disk return the
\* same kinds of sources in the same order.
C8_SameOrder ==
    (pc = "composed" /\ prev # <<>>) => Kinds(prev) = Kinds(sources)

-----------------------------------------------------------------------------
(* Properties of EnvSettingsSource.__call__ *)

\* {k1: {...: {kn: value}}}
Nested(parts, value) ==
    [q \in {SubSeq(parts, 1, k) : k \in 1..Len(parts)} |->
        IF Len(q) < Len(parts) THEN DictNode ELSE StrNode(value)]

\* The variable's lower-cased name starts with lower(prefix) + "."
Matches(key, prefix) == StartsWith(Lower(key), Lower(prefix) \o Dot)

\* The key path of a matching variable: its lower-cased name with exactly
\* the prefix removed, split on "."
KeyPath(key, prefix) ==
    Split(SubSeq(Lower(key), Len(prefix) + 2, Len(key)), ".")

\* The key path starts with no character of the prefix
PlainKey(key, prefix) ==
    Head(KeyPath(key, prefix)[1]) \notin Chars(Lower(prefix) \o Dot)

IsPrefixOf(p, q) == Len(p) <= Len(q) /\ SubSeq(q, 1, Len(p)) = p

EnvResult == produced[1].map

\* C3: a single variable PREFIX.k1.....kn=value with non-empty segments
\* gives exactly {k1: {...: {kn: value}}}, the keys lower-cased.
C3_SingleVariable ==
    (pc = "called" /\ Len(environ) = 1 /\ Matches(environ[1][1], setting.envprefix))
        => LET parts == KeyPath(environ[1][1], setting.envprefix)
           IN  (\A i \in DOMAIN parts : parts[i] # <<>>)
                   => EnvResult = Nested(parts, environ[1][2])

\* C5: of two variables PREFIX.A and PREFIX.A.B, in either enumeration order,
\* the first one met decides what key a holds and the second one leaves no
\* key anywhere in the result.
C5_SecondDropped ==
    (pc = "called" /\ Len(environ) = 2
        /\ \A i \in 1..2 : /\ Matches(environ[i][1], setting.envprefix)
                           /\ PlainKey(environ[i][1], setting.envprefix))
        => LET p1 == KeyPath(environ[1][1], setting.envprefix)
               p2 == KeyPath(environ[2][1], setting.envprefix)
           IN  ((Len(p1) = 1 /\ Len(p2) = 2 /\ IsPrefixOf(p1, p2))
                    \/ (Len(p2) = 1 /\ Len(p1) = 2 /\ IsPrefixOf(p2, p1)))
                   => EnvResult = Nested(p1, environ[1][2])

\* C10: matching variables whose key paths do not collide (none is a prefix
\* of another) have each value at exactly its own key path, whatever the
\* enumeration order: PREFIX.DB.HOST and PREFIX.DB.PORT give
\* {db: {host: ..., port: ...}}.
C10_Descends ==
    (pc = "called" /\ Len(environ) = 2
        /\ \A i \in 1..2 : /\ Matches(environ[i][1], setting.envprefix)
                           /\ PlainKey(environ[i][1], setting.envprefix))
        => LET p1 == KeyPath(environ[1][1], setting.envprefix)
               p2 == KeyPath(environ[2][1], setting.envprefix)
               n1 == Nested(p1, environ[1][2])
               n2 == Nested(p2, environ[2][2])
           IN  (~IsPrefixOf(p1, p2) /\ ~IsPrefixOf(p2, p1))
                   => EnvResult = [q \in DOMAIN n1 \cup DOMAIN n2 |->
                                      IF q \in DOMAIN n1 THEN n1[q] ELSE n2[q]]

-----------------------------------------------------------------------------
(* Properties of the file sources *)

\* C6: a JSON or YAML file whose top-level value is not a mapping makes the
\* source's call fail with a schema error instead of returning the value.
C6_SchemaError ==
    (pc = "called" /\ docs[sources[1].path].wellformed
        /\ docs[sources[1].path].top # "mapping")
        => produced[1].raised = "SchemaError"

-----------------------------------------------------------------------------
(* End to end *)

\* Deep merge of two mappings, high taking precedence: a key of low is kept
\* where high has no value for it, and where both hold a mapping the two are
\* merged key by key.
DeepMerge(high, low) ==
    LET kept == {q \in DOMAIN low :
                    \A k \in 1..Len(q) :
                        LET r == SubSeq(q, 1, k)
                        IN  r \in DOMAIN high
                                => (high[r] = DictNode /\ low[r] = DictNode)}
    IN  [q \in DOMAIN high \cup kept |-> IF q \in DOMAIN high THEN high[q] ELSE low[q]]

\* Deep merge of a sequence of mappings, earlier ones taking precedence
RECURSIVE MergeAll(_)
MergeAll(ms) ==
    IF ms = <<>> THEN EmptyDict
    ELSE DeepMerge(Head(ms).map, MergeAll(Tail(ms)))

\* C4: with only app.yaml {db: {host: "h1", port: 5432}} on disk and
\* PYKIT.DB.HOST=h2 in the environment, deep-merging the mappings of the
\* returned sources, earlier sources first, gives
\* {db: {host: "h2", port: 5432}}.
C4_EnvOverridesYaml ==
    pc = "called" =>
        MergeAll(produced) =
            (<<s_db>> :> DictNode) @@ (<<s_db, s_host>> :> StrNode(s_h2))
                @@ (<<s_db, s_port>> :> IntNode(s_5432))

====
